---- MODULE Spec2Model ----
(***************************************************************************)
(* Shyampari Edutech chatbot (src/main.py): the start-up of the process,   *)
(* the /chat, /health, /test-grok and / request handlers, the remote       *)
(* completion call and the keyword fallback responder.                     *)
(*                                                                         *)
(* Text is a sequence of one-character strings, so that strip(), lower()   *)
(* and the substring test `word in message_lower` are computed character   *)
(* by character.  A canned response block is a long literal; it is kept    *)
(* as a one-element text whose element stands for the literal.             *)
(* datetime.now() is not modelled: the timestamp field is left out of the  *)
(* ChatResponse record.                                                    *)
(***************************************************************************)
EXTENDS Integers, Sequences, FiniteSets, TLC

VARIABLES
    data_json,        \* the file data.json as found at start-up
    GROK_API_KEY,     \* module global, os.getenv("GROK_API_KEY")
    grok_available,   \* module global
    knowledge_base,   \* module global
    phase,            \* position of the module's top-level code
    requests,         \* the requests being served, one record per connection
    fb_message,       \* argument of a direct call of get_smart_fallback_response
    fb_response       \* what that call returned

vars == <<data_json, GROK_API_KEY, grok_available, knowledge_base, phase,
          requests, fb_message, fb_response>>

server_vars == <<data_json, GROK_API_KEY, grok_available, knowledge_base, phase,
                 requests>>

fb_vars == <<fb_message, fb_response>>

----------------------------------------------------------------------------
(* Bounds *)

\* number of requests that may be in flight at the same time
MaxRequests == 2

\* number of fragments a generated message is put together from
MaxFrags == 2

----------------------------------------------------------------------------
(* Text: str.strip(), str.lower(), `in` *)

Whitespace == {" ", "\t", "\n", "\r"}

UpperCase == <<"A", "B", "C", "D", "E", "F", "G", "H", "I", "J", "K", "L", "M",
               "N", "O", "P", "Q", "R", "S", "T", "U", "V", "W", "X", "Y", "Z">>

LowerCase == <<"a", "b", "c", "d", "e", "f", "g", "h", "i", "j", "k", "l", "m",
               "n", "o", "p", "q", "r", "s", "t", "u", "v", "w", "x", "y", "z">>

LowerChar(c) ==
    IF \E i \in 1..26 : UpperCase[i] = c
    THEN LowerCase[CHOOSE i \in 1..26 : UpperCase[i] = c]
    ELSE c

\* str.lower()
Lower(s) == [i \in 1..Len(s) |-> LowerChar(s[i])]

\* str.strip(): leading and trailing whitespace removed
Strip(s) ==
    LET keep == {i \in 1..Len(s) : s[i] \notin Whitespace}
    IN  IF keep = {} THEN <<>>
        ELSE LET first == CHOOSE i \in keep : \A j \in keep : i <= j
                 last  == CHOOSE i \in keep : \A j \in keep : j <= i
             IN  SubSeq(s, first, last)

\* `word in text` for two strings
Contains(text, word) ==
    \E i \in 1..(Len(text) - Len(word) + 1) :
        SubSeq(text, i, i + Len(word) - 1) = word

\* any(word in text for word in words)
AnyIn(words, text) == \E word \in words : Contains(text, word)

----------------------------------------------------------------------------
(* Fallback responder: keyword groups and canned blocks *)

\* main.py:219  'hello', 'hi', 'hey', 'namaste', 'good morning', 'good evening', 'good afternoon'
greeting_keywords ==
    { <<"h", "e", "l", "l", "o">>,
      <<"h", "i">>,
      <<"h", "e", "y">>,
      <<"n", "a", "m", "a", "s", "t", "e">>,
      <<"g", "o", "o", "d", " ", "m", "o", "r", "n", "i", "n", "g">>,
      <<"g", "o", "o", "d", " ", "e", "v", "e", "n", "i", "n", "g">>,
      <<"g", "o", "o", "d", " ", "a", "f", "t", "e", "r", "n", "o", "o", "n">> }

\* main.py:223  'service', 'what do you offer', 'what you provide', 'tell me about'
service_keywords ==
    { <<"s", "e", "r", "v", "i", "c", "e">>,
      <<"w", "h", "a", "t", " ", "d", "o", " ", "y", "o", "u", " ", "o", "f", "f", "e", "r">>,
      <<"w", "h", "a", "t", " ", "y", "o", "u", " ", "p", "r", "o", "v", "i", "d", "e">>,
      <<"t", "e", "l", "l", " ", "m", "e", " ", "a", "b", "o", "u", "t">> }

\* main.py:242  'demo', 'trial', 'test', 'sample', 'try'
demo_keywords ==
    { <<"d", "e", "m", "o">>,
      <<"t", "r", "i", "a", "l">>,
      <<"t", "e", "s", "t">>,
      <<"s", "a", "m", "p", "l", "e">>,
      <<"t", "r", "y">> }

\* main.py:257  'fee', 'cost', 'price', 'charge', 'expensive', 'affordable', 'money'
fee_keywords ==
    { <<"f", "e", "e">>,
      <<"c", "o", "s", "t">>,
      <<"p", "r", "i", "c", "e">>,
      <<"c", "h", "a", "r", "g", "e">>,
      <<"e", "x", "p", "e", "n", "s", "i", "v", "e">>,
      <<"a", "f", "f", "o", "r", "d", "a", "b", "l", "e">>,
      <<"m", "o", "n", "e", "y">> }

\* main.py:272  'board', 'curriculum', 'syllabus', 'icse', 'igcse', 'cbse', 'ib', 'a-level'
board_keywords ==
    { <<"b", "o", "a", "r", "d">>,
      <<"c", "u", "r", "r", "i", "c", "u", "l", "u", "m">>,
      <<"s", "y", "l", "l", "a", "b", "u", "s">>,
      <<"i", "c", "s", "e">>,
      <<"i", "g", "c", "s", "e">>,
      <<"c", "b", "s", "e">>,
      <<"i", "b">>,
      <<"a", "-", "l", "e", "v", "e", "l">> }

\* main.py:284  'tutor', 'teacher', 'educator', 'faculty', 'instructor'
tutor_keywords ==
    { <<"t", "u", "t", "o", "r">>,
      <<"t", "e", "a", "c", "h", "e", "r">>,
      <<"e", "d", "u", "c", "a", "t", "o", "r">>,
      <<"f", "a", "c", "u", "l", "t", "y">>,
      <<"i", "n", "s", "t", "r", "u", "c", "t", "o", "r">> }

\* main.py:304  'contact', 'reach', 'call', 'phone', 'address', 'location'
contact_keywords ==
    { <<"c", "o", "n", "t", "a", "c", "t">>,
      <<"r", "e", "a", "c", "h">>,
      <<"c", "a", "l", "l">>,
      <<"p", "h", "o", "n", "e">>,
      <<"a", "d", "d", "r", "e", "s", "s">>,
      <<"l", "o", "c", "a", "t", "i", "o", "n">> }

\* main.py:320  'time', 'timing', 'schedule', 'when', 'available', 'hours'
timing_keywords ==
    { <<"t", "i", "m", "e">>,
      <<"t", "i", "m", "i", "n", "g">>,
      <<"s", "c", "h", "e", "d", "u", "l", "e">>,
      <<"w", "h", "e", "n">>,
      <<"a", "v", "a", "i", "l", "a", "b", "l", "e">>,
      <<"h", "o", "u", "r", "s">> }

\* main.py:336  'where', 'location', 'pune', 'maharashtra', 'area', 'nearby'
location_keywords ==
    { <<"w", "h", "e", "r", "e">>,
      <<"l", "o", "c", "a", "t", "i", "o", "n">>,
      <<"p", "u", "n", "e">>,
      <<"m", "a", "h", "a", "r", "a", "s", "h", "t", "r", "a">>,
      <<"a", "r", "e", "a">>,
      <<"n", "e", "a", "r", "b", "y">> }

\* main.py:350  'really', 'sure', 'certain', 'true', 'confirm'
affirmation_keywords ==
    { <<"r", "e", "a", "l", "l", "y">>,
      <<"s", "u", "r", "e">>,
      <<"c", "e", "r", "t", "a", "i", "n">>,
      <<"t", "r", "u", "e">>,
      <<"c", "o", "n", "f", "i", "r", "m">> }

\* main.py:220
GreetingBlock == <<"Hello! Welcome to Shyampari Edutech. I'm here to help you learn about our premium tutoring services ...">>

\* main.py:224-239
ServiceBlock == <<"We offer comprehensive tutoring services: ...">>

\* main.py:243-254
DemoBlock == <<"**Demo Class Process:** ... Demo fee: **Rs 500** (subject to negotiation) ...">>

\* main.py:258-269
FeeBlock == <<"**Fee Structure:** ... **Demo fee:** Rs 500 (negotiable) ...">>

\* main.py:273-281
BoardBlock == <<"**Educational Boards We Support:** ...">>

\* main.py:285-301
TutorBlock == <<"**Our Expert Tutors:** ...">>

\* main.py:305-317
ContactBlock == <<"**Get In Touch:** ...">>

\* main.py:321-333
TimingBlock == <<"**Flexible Scheduling:** ...">>

\* main.py:337-347
LocationBlock == <<"**Location & Coverage:** ...">>

\* main.py:351-363
AffirmationBlock == <<"Absolutely! Shyampari Edutech has been providing quality education services since 2017. ...">>

\* main.py:367-381
DefaultBlock == <<"Thank you for your interest in Shyampari Edutech! ...">>

\* the cascade with the location test moved in front of the contact test
get_smart_fallback_response_LocationFirst(message) ==
    LET message_lower == Lower(message)
    IN  IF AnyIn(greeting_keywords, message_lower) THEN GreetingBlock
        ELSE IF AnyIn(service_keywords, message_lower) THEN ServiceBlock
        ELSE IF AnyIn(demo_keywords, message_lower) THEN DemoBlock
        ELSE IF AnyIn(fee_keywords, message_lower) THEN FeeBlock
        ELSE IF AnyIn(board_keywords, message_lower) THEN BoardBlock
        ELSE IF AnyIn(tutor_keywords, message_lower) THEN TutorBlock
        ELSE IF AnyIn(location_keywords, message_lower) THEN LocationBlock
        ELSE IF AnyIn(contact_keywords, message_lower) THEN ContactBlock
        ELSE IF AnyIn(timing_keywords, message_lower) THEN TimingBlock
        ELSE IF AnyIn(affirmation_keywords, message_lower) THEN AffirmationBlock
        ELSE DefaultBlock

\* the cascade with the fee test moved in front of the demo test
get_smart_fallback_response_FeeFirst(message) ==
    LET message_lower == Lower(message)
    IN  IF AnyIn(greeting_keywords, message_lower) THEN GreetingBlock
        ELSE IF AnyIn(service_keywords, message_lower) THEN ServiceBlock
        ELSE IF AnyIn(fee_keywords, message_lower) THEN FeeBlock
        ELSE IF AnyIn(demo_keywords, message_lower) THEN DemoBlock
        ELSE IF AnyIn(board_keywords, message_lower) THEN BoardBlock
        ELSE IF AnyIn(tutor_keywords, message_lower) THEN TutorBlock
        ELSE IF AnyIn(contact_keywords, message_lower) THEN ContactBlock
        ELSE IF AnyIn(timing_keywords, message_lower) THEN TimingBlock
        ELSE IF AnyIn(location_keywords, message_lower) THEN LocationBlock
        ELSE IF AnyIn(affirmation_keywords, message_lower) THEN AffirmationBlock
        ELSE DefaultBlock

\* main.py:214-381
get_smart_fallback_response(message) ==
    LET message_lower == Lower(message)
    IN  IF AnyIn(greeting_keywords, message_lower) THEN GreetingBlock
        ELSE IF AnyIn(service_keywords, message_lower) THEN ServiceBlock
        ELSE IF AnyIn(demo_keywords, message_lower) THEN DemoBlock
        ELSE IF AnyIn(fee_keywords, message_lower) THEN FeeBlock
        ELSE IF AnyIn(board_keywords, message_lower) THEN BoardBlock
        ELSE IF AnyIn(tutor_keywords, message_lower) THEN TutorBlock
        ELSE IF AnyIn(contact_keywords, message_lower) THEN ContactBlock
        ELSE IF AnyIn(timing_keywords, message_lower) THEN TimingBlock
        ELSE IF AnyIn(location_keywords, message_lower) THEN LocationBlock
        ELSE IF AnyIn(affirmation_keywords, message_lower) THEN AffirmationBlock
        ELSE DefaultBlock

----------------------------------------------------------------------------
(* Exceptions: a raised exception is named by its class; `except C` catches *)
(* the instances of C and of its subclasses.                                *)

\* the base class of each exception class met in main.py
ExceptionBase ==
    [ HTTPException      |-> "Exception",          \* fastapi / starlette
      OSError            |-> "Exception",
      FileNotFoundError  |-> "OSError",
      PermissionError    |-> "OSError",
      ValueError         |-> "Exception",
      JSONDecodeError    |-> "ValueError",         \* json
      UnicodeDecodeError |-> "ValueError",
      KeyError           |-> "Exception",
      AttributeError     |-> "Exception",
      HTTPError          |-> "Exception",          \* httpx
      TimeoutException   |-> "HTTPError",
      ConnectError       |-> "HTTPError",
      Exception          |-> "BaseException",
      BaseException      |-> "BaseException" ]

RECURSIVE IsInstance(_, _)
\* isinstance(an instance of class cls, base)
IsInstance(cls, base) ==
    IF cls = base THEN TRUE
    ELSE IF ExceptionBase[cls] = cls THEN FALSE
    ELSE IsInstance(ExceptionBase[cls], base)

\* the value of an expression that may raise: either a value or an exception
Returned(v) == [raised |-> "", value |-> v]
Raised(cls, v) == [raised |-> cls, value |-> v]

----------------------------------------------------------------------------
(* Start-up: the module's top-level code, main.py:32-97 *)

\* None
None == [some |-> FALSE, text |-> <<>>]

\* a str value
Some(t) == [some |-> TRUE, text |-> t]

\* what os.getenv("GROK_API_KEY") may return: None, "" or a key
EnvValues == {None, Some(<<>>), Some(<<"x", "a", "i", "-", "k", "e", "y">>)}

\* bool(v) of a value that is None or a str, taken as "the string is set"
Truthy_IsNotNone(v) == v.some

\* bool(v) of a value that is None or a str: `if GROK_API_KEY`, `if ai_response`
Truthy(v) == v.some /\ Len(v.text) > 0

\* the states data.json may be found in
DataJsonStates == {"absent", "unreadable", "undecodable", "malformed", "valid"}

\* open('data.json', 'r', encoding='utf-8') followed by json.load(file)
ReadDataJson(file) ==
    CASE file = "absent"      -> Raised("FileNotFoundError", "")
      [] file = "unreadable"  -> Raised("PermissionError", "")
      [] file = "undecodable" -> Raised("UnicodeDecodeError", "")
      [] file = "malformed"   -> Raised("JSONDecodeError", "")
      [] file = "valid"       -> Returned("file content")

create_default_knowledge_base == "hardcoded default"

load_knowledge_base(file) ==
    LET r == ReadDataJson(file)
    IN  IF r.raised = "" THEN r
        ELSE IF IsInstance(r.raised, "FileNotFoundError")
             THEN Returned(create_default_knowledge_base)
        ELSE IF IsInstance(r.raised, "JSONDecodeError")
             THEN Returned(create_default_knowledge_base)
        ELSE r

\* grok_available = initialize_grok()
InitializeGrok ==
    /\ phase = "initialize_grok"
    /\ grok_available' = Truthy(GROK_API_KEY)
    /\ phase' = "load_knowledge_base"
    /\ UNCHANGED <<data_json, GROK_API_KEY, knowledge_base, requests, fb_vars>>

\* knowledge_base = load_knowledge_base(); an exception that escapes ends the
\* import of the module, and with it the process
LoadKnowledgeBase ==
    /\ phase = "load_knowledge_base"
    /\ LET r == load_knowledge_base(data_json)
       IN  IF r.raised = ""
           THEN /\ knowledge_base' = r.value
                /\ phase' = "serving"
           ELSE /\ knowledge_base' = knowledge_base
                /\ phase' = "crashed"
    /\ UNCHANGED <<data_json, GROK_API_KEY, grok_available, requests, fb_vars>>

----------------------------------------------------------------------------
(* The remote completion call, main.py:155-212 *)

Choice(shape, content) == [shape |-> shape, content |-> content]

Body(shape, choices) == [shape |-> shape, choices |-> choices]

Outcome(kind, status, body) == [kind |-> kind, status |-> status, body |-> body]

NoBody == Body("none", <<>>)

NoOutcome == Outcome("none", 0, NoBody)

\* texts a completion choice may carry
ChoiceTexts ==
    { <<>>,
      <<" ", " ">>,
      <<" ", "o", "k", "\n">>,
      <<"o", "k">> }

\* what `await client.post(...)` may end in: an exception, or a response with a
\* status code and a body
RemoteOutcomes ==
    { Outcome("timeout", 0, NoBody),
      Outcome("network", 0, NoBody),
      Outcome("response", 500, NoBody),
      Outcome("response", 200, Body("not_json", <<>>)),
      Outcome("response", 200, Body("no_choices_key", <<>>)),
      Outcome("response", 200, Body("choices", <<>>)),
      Outcome("response", 200, Body("choices", <<Choice("no_message", <<>>)>>)),
      Outcome("response", 200, Body("choices", <<Choice("null_content", <<>>)>>)),
      Outcome("response", 200,
              Body("choices", <<Choice("text", <<"o", "k">>),
                                Choice("text", <<"m", "o", "r", "e">>)>>)) }
    \cup { Outcome("response", 200, Body("choices", <<Choice("text", t)>>)) :
             t \in ChoiceTexts \ {<<"o", "k">>} }

\* the try body with the first choice's text returned as it came
grok_try_body_NoStrip(outcome) ==
    CASE outcome.kind = "timeout" -> Raised("TimeoutException", None)
      [] outcome.kind = "network" -> Raised("ConnectError", None)
      [] outcome.kind = "response" ->
            IF outcome.status = 200
            THEN IF outcome.body.shape = "not_json"
                 THEN Raised("JSONDecodeError", None)
                 ELSE IF outcome.body.shape = "choices" /\ Len(outcome.body.choices) > 0
                 THEN LET first == outcome.body.choices[1]
                      IN  CASE first.shape = "no_message"   -> Raised("KeyError", None)
                            [] first.shape = "null_content" -> Raised("AttributeError", None)
                            [] first.shape = "text" -> Returned(Some(first.content))
                 ELSE Returned(None)
            ELSE Returned(None)

\* main.py:186-204, from the moment client.post ends
grok_try_body(outcome) ==
    CASE outcome.kind = "timeout" -> Raised("TimeoutException", None)
      [] outcome.kind = "network" -> Raised("ConnectError", None)
      [] outcome.kind = "response" ->
            IF outcome.status = 200
            THEN IF outcome.body.shape = "not_json"
                 THEN Raised("JSONDecodeError", None)
                 ELSE IF outcome.body.shape = "choices" /\ Len(outcome.body.choices) > 0
                 THEN LET first == outcome.body.choices[1]
                      IN  CASE first.shape = "no_message"   -> Raised("KeyError", None)
                            [] first.shape = "null_content" -> Raised("AttributeError", None)
                            [] first.shape = "text" -> Returned(Some(Strip(first.content)))
                 ELSE Returned(None)
            ELSE Returned(None)

\* get_grok_response with only the `except httpx.TimeoutException` clause
get_grok_response_TimeoutOnly(outcome) ==
    LET r == grok_try_body(outcome)
    IN  IF r.raised = "" THEN r
        ELSE IF IsInstance(r.raised, "TimeoutException") THEN Returned(None)
        ELSE r

\* main.py:161-212: the try statement of get_grok_response, once the key test
\* of main.py:157 has passed and the request has been sent
get_grok_response(outcome) ==
    LET r == grok_try_body(outcome)
    IN  IF r.raised = "" THEN r
        ELSE IF IsInstance(r.raised, "TimeoutException") THEN Returned(None)
        ELSE IF IsInstance(r.raised, "Exception") THEN Returned(None)
        ELSE r

----------------------------------------------------------------------------
(* Requests and responses *)

Requests == 1..MaxRequests

NoResult ==
    [status |-> 0, detail |-> "", response |-> <<>>, using_ai |-> FALSE, flags |-> {}]

\* ChatResponse(response=..., timestamp=..., using_ai=...), sent with status 200
ChatResponse(response, using_ai) ==
    [status |-> 200, detail |-> "", response |-> response, using_ai |-> using_ai,
     flags |-> {}]

\* HTTPException(status_code=..., detail=...) as it reaches the client
HTTPException(status_code, detail) ==
    [status |-> status_code, detail |-> detail, response |-> <<>>,
     using_ai |-> FALSE, flags |-> {}]

\* a dict returned by /health, /test-grok or /, sent with status 200
JsonResponse(status_text, response, flags) ==
    [status |-> 200, detail |-> status_text, response |-> response,
     using_ai |-> FALSE, flags |-> flags]

IdleRequest ==
    [pc |-> "idle", endpoint |-> "none", message |-> <<>>, calls |-> 0,
     outcome |-> NoOutcome, result |-> NoResult]

\* the message bodies posted to /chat
ChatMessages ==
    { <<>>,
      <<" ", "\t">>,
      <<" ", "H", "e", "l", "l", "o", " ", "f", "e", "e", " ">>,
      <<"W", "h", "a", "t", " ", "i", "s", " ", "t", "h", "e", " ", "d", "e", "m", "o", " ", "f", "e", "e", "?">> }

\* main.py:438
TestGrokMessage ==
    <<"Say 'Grok is working correctly for Shyampari Edutech!' in a friendly way.">>

\* main.py:386-389: the message is trimmed, an empty one raises
chat_validate(message) ==
    LET user_message == Strip(message)
    IN  IF ~(Len(user_message) > 0)
        THEN Raised("HTTPException", HTTPException(400, "Message cannot be empty"))
        ELSE Returned(user_message)

\* main.py:385, 413-416: what leaves chat_endpoint when its try body ends in r
chat_endpoint_except(r) ==
    IF r.raised = "" THEN r.value
    ELSE IF IsInstance(r.raised, "Exception")
         THEN HTTPException(500, "Internal server error")
    ELSE HTTPException(500, "unhandled")

\* `if ai_response:` taken as `if ai_response is not None:`
AiResponseUsable_IsNotNone(ai_response) == ai_response.some

\* main.py:396  `if ai_response:`
AiResponseUsable(ai_response) == Truthy(ai_response)

\* the fallback path with one more attempt before it
OnNoAiResponse_Retry(req) ==
    IF req.calls < 2
    THEN [req EXCEPT !.pc = "awaiting", !.calls = @ + 1]
    ELSE [req EXCEPT !.pc = "done",
                     !.result = ChatResponse(
                         get_smart_fallback_response(Strip(req.message)), FALSE)]

\* main.py:403-411
OnNoAiResponse(req) ==
    [req EXCEPT !.pc = "done",
                !.result = ChatResponse(
                    get_smart_fallback_response(Strip(req.message)), FALSE)]

\* main.py:394-401, from the moment get_grok_response has ended in g
chat_after_grok(req, g) ==
    IF g.raised # ""
    THEN [req EXCEPT !.pc = "done", !.result = chat_endpoint_except(g)]
    ELSE IF AiResponseUsable(g.value)
    THEN [req EXCEPT !.pc = "done", !.result = ChatResponse(g.value.text, TRUE)]
    ELSE OnNoAiResponse(req)

\* POST /chat, up to the await of main.py:187 or, with no call made, to the end
ChatBegin(r, message) ==
    /\ phase = "serving"
    /\ requests[r].pc = "idle"
    /\ LET req == [IdleRequest EXCEPT !.endpoint = "chat", !.message = message]
           v   == chat_validate(message)
       IN  requests' = [requests EXCEPT ![r] =
             IF v.raised # ""
             THEN [req EXCEPT !.pc = "done", !.result = chat_endpoint_except(v)]
             ELSE IF grok_available /\ Truthy(GROK_API_KEY)
             THEN IF ~Truthy(GROK_API_KEY)
                  THEN OnNoAiResponse(req)
                  ELSE [req EXCEPT !.pc = "awaiting", !.calls = @ + 1]
             ELSE OnNoAiResponse(req)]
    /\ UNCHANGED <<data_json, GROK_API_KEY, grok_available, knowledge_base, phase,
                   fb_vars>>

\* the rest of POST /chat, with grok_available cleared when the call failed
ChatRemoteReturn_DisablesGrok(r, outcome) ==
    /\ phase = "serving"
    /\ requests[r].pc = "awaiting"
    /\ requests[r].endpoint = "chat"
    /\ LET g == get_grok_response(outcome)
       IN  /\ requests' = [requests EXCEPT ![r] =
                 chat_after_grok([requests[r] EXCEPT !.outcome = outcome], g)]
           /\ grok_available' = (g.raised = "" /\ AiResponseUsable(g.value))
    /\ UNCHANGED <<data_json, GROK_API_KEY, knowledge_base, phase, fb_vars>>

\* the rest of POST /chat, once client.post has ended in `outcome`
ChatRemoteReturn(r, outcome) ==
    /\ phase = "serving"
    /\ requests[r].pc = "awaiting"
    /\ requests[r].endpoint = "chat"
    /\ requests' = [requests EXCEPT ![r] =
          chat_after_grok([requests[r] EXCEPT !.outcome = outcome],
                          get_grok_response(outcome))]
    /\ UNCHANGED <<data_json, GROK_API_KEY, grok_available, knowledge_base, phase,
                   fb_vars>>

\* GET /health
HealthCheck(r) ==
    /\ phase = "serving"
    /\ requests[r].pc = "idle"
    /\ requests' = [requests EXCEPT ![r] =
          [IdleRequest EXCEPT
              !.pc = "done", !.endpoint = "health",
              !.result = JsonResponse("healthy", <<>>,
                  {f \in {"grok_available", "knowledge_base_loaded", "api_key_present"} :
                      \/ f = "grok_available" /\ grok_available
                      \/ f = "knowledge_base_loaded" /\ knowledge_base # "unset"
                      \/ f = "api_key_present" /\ Truthy(GROK_API_KEY)})]]
    /\ UNCHANGED <<data_json, GROK_API_KEY, grok_available, knowledge_base, phase,
                   fb_vars>>

\* GET /
Root(r) ==
    /\ phase = "serving"
    /\ requests[r].pc = "idle"
    /\ requests' = [requests EXCEPT ![r] =
          [IdleRequest EXCEPT
              !.pc = "done", !.endpoint = "root",
              !.result = JsonResponse(
                  IF grok_available THEN "grok-active" ELSE "fallback", <<>>, {})]]
    /\ UNCHANGED <<data_json, GROK_API_KEY, grok_available, knowledge_base, phase,
                   fb_vars>>

\* GET /test-grok, up to the await of main.py:187 or, with no key, to the end
TestGrokBegin(r) ==
    /\ phase = "serving"
    /\ requests[r].pc = "idle"
    /\ LET req == [IdleRequest EXCEPT !.endpoint = "test-grok",
                                      !.message = TestGrokMessage]
       IN  requests' = [requests EXCEPT ![r] =
             IF ~Truthy(GROK_API_KEY)
             THEN [req EXCEPT !.pc = "done",
                              !.result = JsonResponse("failed", <<>>, {})]
             ELSE [req EXCEPT !.pc = "awaiting", !.calls = @ + 1]]
    /\ UNCHANGED <<data_json, GROK_API_KEY, grok_available, knowledge_base, phase,
                   fb_vars>>

\* the rest of GET /test-grok
TestGrokReturn(r, outcome) ==
    /\ phase = "serving"
    /\ requests[r].pc = "awaiting"
    /\ requests[r].endpoint = "test-grok"
    /\ LET g   == get_grok_response(outcome)
           req == [requests[r] EXCEPT !.outcome = outcome, !.pc = "done"]
       IN  requests' = [requests EXCEPT ![r] =
             IF g.raised = "" /\ Truthy(g.value)
             THEN [req EXCEPT !.result = JsonResponse("success", g.value.text, {})]
             ELSE [req EXCEPT !.result = JsonResponse("error", <<>>, {})]]
    /\ UNCHANGED <<data_json, GROK_API_KEY, grok_available, knowledge_base, phase,
                   fb_vars>>

\* the response has been sent; the connection carries its next request
Complete(r) ==
    /\ phase = "serving"
    /\ requests[r].pc = "done"
    /\ requests' = [requests EXCEPT ![r] = IdleRequest]
    /\ UNCHANGED <<data_json, GROK_API_KEY, grok_available, knowledge_base, phase,
                   fb_vars>>

----------------------------------------------------------------------------
(* The server *)

Init ==
    /\ data_json \in DataJsonStates
    /\ GROK_API_KEY \in EnvValues
    /\ grok_available = FALSE
    /\ knowledge_base = "unset"
    /\ phase = "initialize_grok"
    /\ requests = [r \in Requests |-> IdleRequest]
    /\ fb_message = <<>>
    /\ fb_response = None

Next ==
    \/ InitializeGrok
    \/ LoadKnowledgeBase
    \/ \E r \in Requests : \E message \in ChatMessages : ChatBegin(r, message)
    \/ \E r \in Requests : \E outcome \in RemoteOutcomes : ChatRemoteReturn(r, outcome)
    \/ \E r \in Requests : HealthCheck(r)
    \/ \E r \in Requests : Root(r)
    \/ \E r \in Requests : TestGrokBegin(r)
    \/ \E r \in Requests : \E outcome \in RemoteOutcomes : TestGrokReturn(r, outcome)
    \/ \E r \in Requests : Complete(r)

Spec == Init /\ [][Next]_vars

----------------------------------------------------------------------------
(* get_smart_fallback_response called on its own *)

\* the pieces generated messages are put together from
Fragments ==
    { <<"H", "e", "l", "l", "o">>,
      <<" ">>,
      <<"f", "e", "e">>,
      <<"l", "o", "c", "a", "t", "i", "o", "n">>,
      <<"d", "e", "m", "o">>,
      <<"T">>,
      <<"h", "i", "s">>,
      <<"s", "u", "r", "e">>,
      <<"t", "u", "t", "o", "r">>,
      <<"I", "B">>,
      <<"w", "h", "e", "n">>,
      <<"s", "e", "r", "v", "i", "c", "e">>,
      <<"p", "u", "n", "e">>,
      <<"x", "y", "z">> }

RECURSIVE Concatenations(_)
\* the texts made of exactly n fragments
Concatenations(n) ==
    IF n = 0 THEN {<<>>}
    ELSE {a \o f : a \in Concatenations(n - 1), f \in Fragments}

Messages == UNION {Concatenations(n) : n \in 0..MaxFrags}

FallbackInit ==
    /\ data_json = "valid"
    /\ GROK_API_KEY = None
    /\ grok_available = FALSE
    /\ knowledge_base = "unset"
    /\ phase = "direct_call"
    /\ requests = [r \in Requests |-> IdleRequest]
    /\ fb_message \in Messages
    /\ fb_response = None

FallbackCall ==
    /\ phase = "direct_call"
    /\ fb_response = None
    /\ fb_response' = Some(get_smart_fallback_response(fb_message))
    /\ UNCHANGED <<server_vars, fb_message>>

FallbackNext == FallbackCall

SpecFallback == FallbackInit /\ [][FallbackNext]_vars

----------------------------------------------------------------------------
(* Vocabulary of the properties *)

\* the credential is configured: the environment value is set and not empty
CredentialPresent == GROK_API_KEY.some /\ GROK_API_KEY.text # <<>>

\* request r is a /chat request whose handler has ended
ChatDone(r) == requests[r].endpoint = "chat" /\ requests[r].pc = "done"

\* the message of request r is not empty after trimming
NonEmptyMessage(r) == Strip(requests[r].message) # <<>>

\* the remote call ended in HTTP 200 with a non-empty choice list whose first
\* choice carries a text
HasFirstChoiceText(outcome) ==
    /\ outcome.kind = "response"
    /\ outcome.status = 200
    /\ outcome.body.shape = "choices"
    /\ Len(outcome.body.choices) > 0
    /\ outcome.body.choices[1].shape = "text"

\* the keyword groups in the order greeting, service, demo/trial, fee,
\* board/curriculum, tutor, contact, timing, location, affirmation
GroupOrder ==
    << [keywords |-> greeting_keywords,    block |-> GreetingBlock],
       [keywords |-> service_keywords,     block |-> ServiceBlock],
       [keywords |-> demo_keywords,        block |-> DemoBlock],
       [keywords |-> fee_keywords,         block |-> FeeBlock],
       [keywords |-> board_keywords,       block |-> BoardBlock],
       [keywords |-> tutor_keywords,       block |-> TutorBlock],
       [keywords |-> contact_keywords,     block |-> ContactBlock],
       [keywords |-> timing_keywords,      block |-> TimingBlock],
       [keywords |-> location_keywords,    block |-> LocationBlock],
       [keywords |-> affirmation_keywords, block |-> AffirmationBlock] >>

\* the groups with a keyword occurring in the lowercased text
MatchingGroups(text) ==
    {g \in 1..Len(GroupOrder) : AnyIn(GroupOrder[g].keywords, Lower(text))}

DemoFeeQuestion == <<"W", "h", "a", "t", " ", "i", "s", " ", "t", "h", "e", " ", "d", "e", "m", "o", " ", "f", "e", "e", "?">>

----------------------------------------------------------------------------
(* Properties *)

\* C1: a /chat request whose message is empty after trimming ends, for either
\* value of the credential flag, in HTTP 400 with an error detail, with no
\* ChatResult and no outbound call.
C1_EmptyMessageIs400 ==
    \A r \in Requests :
        ChatDone(r) /\ ~NonEmptyMessage(r) =>
            /\ requests[r].result.status = 400
            /\ requests[r].result.detail # ""
            /\ requests[r].calls = 0

\* C2: with a credential and a message non-empty after trimming, every failing
\* outcome of the remote call ends in a successful ChatResult with
\* using_ai = false and the fallback responder's text for the message, never in
\* an HTTP error.
C2_RemoteFailureFallsBack ==
    \A r \in Requests :
        /\ ChatDone(r)
        /\ CredentialPresent
        /\ NonEmptyMessage(r)
        /\ ~HasFirstChoiceText(requests[r].outcome)
        => /\ requests[r].result.status = 200
           /\ requests[r].result.using_ai = FALSE
           /\ requests[r].result.response
                  = get_smart_fallback_response(requests[r].message)

\* a request with a credential whose remote call failed has ended
C2_Witness ==
    \E r \in Requests :
        /\ ChatDone(r)
        /\ CredentialPresent
        /\ NonEmptyMessage(r)
        /\ requests[r].calls = 1
        /\ requests[r].outcome.kind = "response"
        /\ requests[r].outcome.status = 200
        /\ requests[r].outcome.body.shape = "choices"
        /\ Len(requests[r].outcome.body.choices) > 0
        /\ requests[r].outcome.body.choices[1].shape = "no_message"
        /\ requests[r].result.using_ai = FALSE

\* C3: with no credential at start-up no outbound call is ever issued, and every
\* /chat request with a message non-empty after trimming ends with
\* using_ai = false and exactly get_smart_fallback_response(trimmed message).
C3_NoCredentialMeansFallbackOnly ==
    ~CredentialPresent =>
        \A r \in Requests :
            /\ requests[r].calls = 0
            /\ ChatDone(r) /\ NonEmptyMessage(r) =>
                  /\ requests[r].result.status = 200
                  /\ requests[r].result.using_ai = FALSE
                  /\ requests[r].result.response
                         = get_smart_fallback_response(Strip(requests[r].message))

\* the environment value is set but empty, a /chat request has been answered and
\* a /test-grok request has ended as well
C3_Witness ==
    /\ GROK_API_KEY.some
    /\ ~CredentialPresent
    /\ \E r \in Requests : ChatDone(r) /\ NonEmptyMessage(r)
    /\ \E r \in Requests : requests[r].endpoint = "test-grok" /\ requests[r].pc = "done"

\* C4: get_smart_fallback_response returns the block of the first group, in the
\* order greeting, service, demo/trial, fee, board/curriculum, tutor, contact,
\* timing, location, affirmation, with a keyword occurring in the lowercased
\* message, and the default block when no group has one.
C4_FirstMatchingGroupWins ==
    fb_response.some =>
        LET matching == MatchingGroups(fb_message)
        IN  IF matching = {}
            THEN fb_response.text = DefaultBlock
            ELSE \E g \in matching :
                    /\ \A h \in matching : g <= h
                    /\ fb_response.text = GroupOrder[g].block

\* a message with "location", which the contact group (7) and the location group
\* (9) both list and no earlier group matches, has been answered
C4_Witness ==
    /\ fb_response.some
    /\ Contains(Lower(fb_message), <<"l", "o", "c", "a", "t", "i", "o", "n">>)
    /\ MatchingGroups(fb_message) = {7, 9}
    /\ fb_response.text = ContactBlock

\* C5 as stated: with no credential, "What is the demo fee?" is answered with the
\* fee group's block and using_ai = false.
C5_DemoFeeGivesFeeBlock ==
    \A r \in Requests :
        ChatDone(r) /\ ~CredentialPresent /\ requests[r].message = DemoFeeQuestion =>
            /\ requests[r].result.response = FeeBlock
            /\ requests[r].result.using_ai = FALSE

\* C5 as amended: with no credential, "What is the demo fee?" is answered with the
\* demo/trial group's block (the 'Demo Class Process' block) and using_ai = false.
C5_DemoFeeGivesDemoBlock ==
    \A r \in Requests :
        ChatDone(r) /\ ~CredentialPresent /\ requests[r].message = DemoFeeQuestion =>
            /\ requests[r].result.status = 200
            /\ requests[r].result.response = DemoBlock
            /\ requests[r].result.using_ai = FALSE

\* "What is the demo fee?" has been answered with no credential configured
C5_Witness ==
    \E r \in Requests :
        ChatDone(r) /\ ~CredentialPresent /\ requests[r].message = DemoFeeQuestion

\* C6: a message non-empty after trimming is answered, for either value of the
\* credential flag and every outcome of the remote call, with a successful
\* ChatResult whose text is not empty.
C6_ResponseTextNonEmpty ==
    \A r \in Requests :
        ChatDone(r) /\ NonEmptyMessage(r) =>
            /\ requests[r].result.status = 200
            /\ Len(requests[r].result.response) > 0

\* the remote call returned HTTP 200 with a whitespace-only first choice and the
\* request has been answered
C6_Witness ==
    \E r \in Requests :
        /\ ChatDone(r)
        /\ NonEmptyMessage(r)
        /\ HasFirstChoiceText(requests[r].outcome)
        /\ Len(requests[r].outcome.body.choices[1].content) > 0
        /\ Strip(requests[r].outcome.body.choices[1].content) = <<>>

\* C7: a ChatResult has using_ai = true exactly when the credential is present
\* and the request's own remote call returned HTTP 200 with a non-empty choice
\* list whose first choice text is non-empty after trimming; its text is then
\* that trimmed text, and otherwise the fallback responder's output.
C7_UsingAiIffRemoteText ==
    \A r \in Requests :
        ChatDone(r) /\ requests[r].result.status = 200 =>
            LET outcome == requests[r].outcome
                ai_text == /\ CredentialPresent
                           /\ HasFirstChoiceText(outcome)
                           /\ Strip(outcome.body.choices[1].content) # <<>>
            IN  /\ requests[r].result.using_ai = ai_text
                /\ requests[r].result.response
                      = IF ai_text
                        THEN Strip(outcome.body.choices[1].content)
                        ELSE get_smart_fallback_response(Strip(requests[r].message))

\* a ChatResult carries the first of two choices, trimmed
C7_Witness ==
    \E r \in Requests :
        /\ ChatDone(r)
        /\ requests[r].result.using_ai
        /\ requests[r].outcome.body.choices[1].content # requests[r].result.response
        /\ \E q \in Requests :
              /\ ChatDone(q)
              /\ Len(requests[q].outcome.body.choices) = 2
              /\ requests[q].result.using_ai

\* C8: start-up never fails because of data.json: whether the file is absent,
\* present but not parseable (its bytes are not UTF-8, or its text is not JSON)
\* or present and valid, load_knowledge_base ends with the file's content or the
\* hardcoded default and the process goes on to serve.
C8_StartupNeverFails ==
    data_json \in {"absent", "undecodable", "malformed", "valid"} =>
        /\ phase # "crashed"
        /\ phase = "serving" =>
              knowledge_base \in {"file content", create_default_knowledge_base}

\* C9: a /chat request causes at most one outbound call: exactly one when the
\* credential is present and the message is non-empty after trimming, none
\* otherwise; a failed call is followed by the fallback, not by another call.
C9_AtMostOneOutboundCall ==
    \A r \in Requests :
        requests[r].endpoint = "chat" =>
            /\ requests[r].calls <= 1
            /\ requests[r].calls = 1 <=> CredentialPresent /\ NonEmptyMessage(r)
            /\ requests[r].pc = "done" /\ requests[r].calls = 1
                  /\ ~HasFirstChoiceText(requests[r].outcome)
                  => requests[r].result.using_ai = FALSE

\* a /chat request has ended in the fallback after its one call failed
C9_Witness ==
    \E r \in Requests :
        /\ ChatDone(r)
        /\ requests[r].calls = 1
        /\ requests[r].outcome.kind = "timeout"
        /\ requests[r].result.response # <<>>

\* C10: once the server serves, no step writes grok_available, GROK_API_KEY or
\* knowledge_base, and two /chat requests with the same message and the same
\* outcome of their own remote call have the same result, whatever else is in
\* flight.
C10_HandlersShareNoMutableState ==
    /\ [][phase = "serving" =>
              /\ grok_available' = grok_available
              /\ GROK_API_KEY' = GROK_API_KEY
              /\ knowledge_base' = knowledge_base]_vars
    /\ [](\A r, q \in Requests :
              /\ ChatDone(r) /\ ChatDone(q)
              /\ requests[r].message = requests[q].message
              /\ requests[r].outcome = requests[q].outcome
              => requests[r].result = requests[q].result)

\* two /chat requests with the same message have ended, one with the model's
\* text and one, its call having failed, with the fallback
C10_Witness ==
    \E r, q \in Requests :
        /\ ChatDone(r) /\ ChatDone(q)
        /\ requests[r].message = requests[q].message
        /\ requests[r].result.using_ai
        /\ ~requests[q].result.using_ai
        /\ requests[q].calls = 1

====
